---- MODULE Spec2Model ----
(***************************************************************************)
(* Model of the configuration subsystem of evan_tools:                     *)
(*   RWLock            src/src/evan_tools/config/main.py                   *)
(*   ConfigCache       src/src/evan_tools/config/core/cache.py             *)
(*   ReloadController  src/src/evan_tools/config/core/reload_controller.py *)
(*   ConfigMerger      src/src/evan_tools/config/core/merger.py            *)
(*   ConfigManager     src/src/evan_tools/config/core/manager.py           *)
(*   YamlConfigSource / DirectoryConfigSource  (config/sources)            *)
(*   load_config / get_config / sync_config  (config/main.py, the          *)
(*                     module-level loader)                                *)
(*                                                                         *)
(* A ConfigTree is kept in flat form: a function from key paths            *)
(* (sequences of keys) to leaf values.  A leaf value is a scalar (a        *)
(* string such as "1") or EmptyDict, which stands for an empty nested      *)
(* mapping.  The domain of a tree is prefix-free.  A list is a node whose  *)
(* children are the index keys "[0]", "[1]", ... in order; EmptyList       *)
(* stands for an empty list.                                               *)
(***************************************************************************)
EXTENDS Integers, Sequences, FiniteSets, TLC

(***************************************************************************)
(* Bounds of the model.                                                    *)
(***************************************************************************)
NThreads == 2          \* threads calling the ConfigManager
NLockClients == 4      \* threads calling the bare RWLock (SpecLock)
MaxOps == 3            \* ConfigManager calls started in one behaviour
MaxExt == 1            \* external modifications of the backing file
Horizon == 3           \* clock ticks in one behaviour
MaxConfigs == 3        \* trees handed to one ConfigMerger.merge call
MaxFiles == 3          \* YAML files in the directory read

\* ConfigManager.__init__(reload_interval_seconds=...), in clock ticks.
reload_interval_seconds == 2

Threads == 1 .. NThreads
LockClients == 1 .. NLockClients

\* time.time() at construction.  ConfigCache starts with _last_reload_time
\* = 0.0, which lies more than one interval in the past of any real clock.
StartTime == reload_interval_seconds
MaxTime == StartTime + Horizon

None == "None"
EmptyDict == "{}"
EmptyList == "[]"

VARIABLES
  \* RWLock
  lock_mutex,        \* owner of the Lock under _read_ready, 0 when free
  lock_readers,      \* RWLock._readers
  lk,                \* per thread: "idle" | "read" | "wait" | "woken" | "write"
  \* ConfigCache
  cache_cache,       \* ConfigCache._cache: None or the id of a heap object
  cache_last_reload_time,
  \* ReloadController
  rc_config_path,    \* ReloadController._config_path
  rc_last_mtime,     \* ReloadController._last_mtime
  \* ConfigManager
  mgr_config_path,   \* ConfigManager._config_path
  mgr_default_config,\* ConfigManager._default_config
  \* the Python heap: dict objects reachable from the cache or from a caller
  heap,
  \* the file system and the clock
  file,              \* the backing file: [exists, mtime, content]
  now,               \* time.time()
  \* the calling threads
  pc,                \* position of each thread inside its current call
  op,                \* the call each thread is executing, with arguments
  loc,               \* locals of the call: the dict object being built / mutated
  ret,               \* what the last completed call handed to its caller
  nops,              \* ConfigManager calls started so far
  next,              \* external modifications made so far
  \* history variables, read by the properties only
  hist,              \* about the manager as a whole
  obs,               \* per thread: what held when its current get() began
  \* ConfigMerger.merge and DirectoryConfigSource.read, taken by themselves
  merge_configs,     \* the trees handed to ConfigMerger.merge, in order
  merged,            \* what the call on merge_configs returned
  fragments,         \* the YAML files of a directory, in filename order
  dir_result,        \* what DirectoryConfigSource.read returned for it
  \* a ConfigManager on a directory with one caller: history of its calls
  watch,
  \* the module-level loader of config/main.py
  cfg,               \* _cfg: the merged configuration, once loaded
  config_path_keys,  \* _config_path_keys: file -> key paths it contributed
  file_cache,        \* _file_cache: file -> [mtime, content] as last parsed
  last_reload_time,  \* _last_reload_time
  disk,              \* the YAML files on disk, by path
  lhist              \* history of the calls of the module-level API

lockvars == <<lock_mutex, lock_readers, lk>>
cachevars == <<cache_cache, cache_last_reload_time>>
rcvars == <<rc_config_path, rc_last_mtime>>
mgrvars == <<mgr_config_path, mgr_default_config>>
envvars == <<file, now, next>>
thrvars == <<pc, op, loc, ret, nops>>
histvars == <<hist, obs>>
legacyvars ==
  <<cfg, config_path_keys, file_cache, last_reload_time, disk, lhist>>
purevars == <<merge_configs, merged, fragments, dir_result, watch, legacyvars>>
vars == <<lockvars, cachevars, rcvars, mgrvars, heap, envvars, thrvars, histvars,
          purevars>>

(***************************************************************************)
(* RWLock (config/main.py:18-39).  Every method body runs under the Lock   *)
(* of the Condition _read_ready, so each critical section is one step.     *)
(* Condition.wait() releases the Lock and sleeps until notify_all(); the   *)
(* woken thread re-acquires the Lock before it tests _readers again.       *)
(***************************************************************************)
\* acquire_read that lets one reader in at a time
acquire_read_alone(t) ==
  /\ lk[t] = "idle"
  /\ lock_mutex = 0
  /\ lock_readers = 0
  /\ lock_readers' = lock_readers + 1
  /\ lk' = [lk EXCEPT ![t] = "read"]
  /\ UNCHANGED lock_mutex

\* acquire_read: with self._read_ready: self._readers += 1
acquire_read(t) ==
  /\ lk[t] = "idle"
  /\ lock_mutex = 0
  /\ lock_readers' = lock_readers + 1
  /\ lk' = [lk EXCEPT ![t] = "read"]
  /\ UNCHANGED lock_mutex

\* release_read that wakes nobody
release_read_silent(t) ==
  /\ lk[t] = "read"
  /\ lock_mutex = 0
  /\ lock_readers' = lock_readers - 1
  /\ lk' = [lk EXCEPT ![t] = "idle"]
  /\ UNCHANGED lock_mutex

\* release_read: with self._read_ready: self._readers -= 1;
\*               if self._readers == 0: notify_all()
release_read(t) ==
  /\ lk[t] = "read"
  /\ lock_mutex = 0
  /\ lock_readers' = lock_readers - 1
  /\ lk' = [u \in DOMAIN lk |->
              IF u = t THEN "idle"
              ELSE IF lock_readers - 1 = 0 /\ lk[u] = "wait" THEN "woken"
              ELSE lk[u]]
  /\ UNCHANGED lock_mutex

\* acquire_write without the loop that waits for the readers to leave
WriterMayEnter_NoWait == TRUE

\* The test of the while loop of acquire_write, made while holding the Lock.
WriterMayEnter == ~(lock_readers > 0)

\* acquire_write: self._read_ready.acquire(); while self._readers > 0: wait()
\* One step takes the Lock (first entry, or re-acquisition after a wake-up)
\* and tests the loop condition: the thread either returns holding the Lock
\* or releases it again inside wait().
acquire_write(t) ==
  /\ lk[t] \in {"idle", "woken"}
  /\ lock_mutex = 0
  /\ IF WriterMayEnter
       THEN /\ lock_mutex' = t
            /\ lk' = [lk EXCEPT ![t] = "write"]
       ELSE /\ lock_mutex' = 0
            /\ lk' = [lk EXCEPT ![t] = "wait"]
  /\ UNCHANGED lock_readers

\* release_write: self._read_ready.release()
release_write(t) ==
  /\ lk[t] = "write"
  /\ lock_mutex' = 0
  /\ lk' = [lk EXCEPT ![t] = "idle"]
  /\ UNCHANGED lock_readers

(***************************************************************************)
(* ConfigTree operations on the flat form.                                 *)
(***************************************************************************)
EmptyTree == [p \in {} |-> EmptyDict]

IsPrefix(p, q) == Len(p) <= Len(q) /\ SubSeq(q, 1, Len(p)) = p

\* the keys of the top-level mapping
Keys(tr) == {p[1] : p \in DOMAIN tr}

\* the keys that stand for the positions of a list
ListIndex == <<"[0]", "[1]", "[2]", "[3]", "[4]", "[5]", "[6]", "[7]">>
Indices == {ListIndex[i] : i \in 1 .. Len(ListIndex)}
IndexOf(key) == CHOOSE i \in 1 .. Len(ListIndex) : ListIndex[i] = key

\* tr[k] is a nested mapping (possibly empty)
IsMapping(tr, k) ==
  \E p \in DOMAIN tr :
    /\ p[1] = k
    /\ IF Len(p) > 1 THEN p[2] \notin Indices ELSE tr[p] = EmptyDict

\* tr[k] is a list (possibly empty)
IsList(tr, k) ==
  \E p \in DOMAIN tr :
    /\ p[1] = k
    /\ IF Len(p) > 1 THEN p[2] \in Indices ELSE tr[p] = EmptyList

\* the nested mapping tr[k]
Sub(tr, k) ==
  [q \in {Tail(p) : p \in {r \in DOMAIN tr : r[1] = k /\ Len(r) > 1}}
     |-> tr[<<k>> \o q]]

\* the one-key tree {k: sub}
Under(k, sub) ==
  IF DOMAIN sub = {} THEN [p \in {<<k>>} |-> EmptyDict]
  ELSE [p \in {<<k>> \o q : q \in DOMAIN sub} |-> sub[Tail(p)]]

\* the one-key tree {k: sub} for a list sub
UnderList(k, sub) ==
  IF DOMAIN sub = {} THEN [p \in {<<k>>} |-> EmptyList]
  ELSE Under(k, sub)

\* the number of elements of a list given by its index keys
ListLen(sub) == Cardinality({p[1] : p \in DOMAIN sub})

\* the list sub with every element moved n positions up
Shift(sub, n) ==
  [q \in {<<ListIndex[IndexOf(p[1]) + n]>> \o Tail(p) : p \in DOMAIN sub}
     |-> sub[<<ListIndex[IndexOf(q[1]) - n]>> \o Tail(q)]]

\* the one-key tree {k: tr[k]}
Entry(tr, k) == [p \in {r \in DOMAIN tr : r[1] = k} |-> tr[p]]

\* the subtree of tr at path pre, as a tree of its own
SubAt(tr, pre) ==
  [q \in {SubSeq(p, Len(pre) + 1, Len(p)) :
            p \in {r \in DOMAIN tr : IsPrefix(pre, r) /\ r # pre}}
     |-> tr[pre \o q]]

\* tr with the value at path replaced by the leaf val
Put(tr, path, val) ==
  [q \in {r \in DOMAIN tr : ~IsPrefix(r, path) /\ ~IsPrefix(path, r)}
         \cup {path}
     |-> IF q = path THEN val ELSE tr[q]]

\* merge_with that appends the source's list to the object's list
RECURSIVE merge_with_concat(_, _)
merge_with_concat(obj, source) ==
  LET ks == Keys(source)
      part(k) ==
        IF IsMapping(source, k) /\ IsMapping(obj, k)
          THEN Under(k, merge_with_concat(Sub(obj, k), Sub(source, k)))
        ELSE IF IsList(source, k) /\ IsList(obj, k)
          THEN UnderList(k, Sub(obj, k)
                            @@ Shift(Sub(source, k), ListLen(Sub(obj, k))))
        ELSE Entry(source, k)
      kept == {p \in DOMAIN obj : p[1] \notin ks}
  IN  [p \in kept \cup UNION {DOMAIN part(k) : k \in ks}
         |-> IF p \in kept THEN obj[p] ELSE part(p[1])[p]]

\* pydash.merge_with(obj, source) without iteratee: for every key of source
\* (every index, when source is a list), two mappings or two lists are
\* merged recursively, anything else is replaced by the source's value;
\* keys and positions of obj that source lacks are kept.
RECURSIVE merge_with(_, _)
merge_with(obj, source) ==
  LET ks == Keys(source)
      part(k) ==
        IF IsMapping(source, k) /\ IsMapping(obj, k)
          THEN Under(k, merge_with(Sub(obj, k), Sub(source, k)))
        ELSE IF IsList(source, k) /\ IsList(obj, k)
          THEN UnderList(k, merge_with(Sub(obj, k), Sub(source, k)))
        ELSE Entry(source, k)
      kept == {p \in DOMAIN obj : p[1] \notin ks}
  IN  [p \in kept \cup UNION {DOMAIN part(k) : k \in ks}
         |-> IF p \in kept THEN obj[p] ELSE part(p[1])[p]]

\* ConfigMerger.merge(*configs) (merger.py:15-41): result = {}; for config
\* in configs: result = merge_with(result, config)
RECURSIVE merge(_)
merge(configs) ==
  IF Len(configs) = 0 THEN EmptyTree
  ELSE merge_with(merge(SubSeq(configs, 1, Len(configs) - 1)),
                  configs[Len(configs)])

(***************************************************************************)
(* Values of the scenario.                                                 *)
(***************************************************************************)
NoObj == 0         \* ConfigCache._cache = None
NoMtime == -1      \* ReloadController._last_mtime = None
ObjIds == 1 .. (2 * NThreads + 1)

F == "config.yaml"                       \* the path given to load()
Leaf(path, v) == [p \in {path} |-> v]
FileV1 == Leaf(<<"a">>, "1")             \* the file's content at the start
FileV2 == Leaf(<<"a">>, "2")             \* the content an external writer puts
Defaults == Leaf(<<"c">>, "0")           \* default_config of load()
DefaultChoices == {EmptyTree, Defaults}
\* set(query, value) calls.  No query runs through a key that holds a scalar.
SetCalls == {<<<<"c">>, "5">>, <<<<"d", "b">>, "7">>}
\* get(query) calls; <<>> is query=None.
GetQueries == {<<>>, <<"a">>, <<"c">>}

NoOp == [name |-> "none", query |-> <<>>, value |-> ""]
NoLoc == [obj |-> NoObj, tree |-> EmptyTree, defaults |-> EmptyTree, i |-> 0]
NoRet == [name |-> "none", kind |-> "none", val |-> "", obj |-> NoObj,
          query |-> <<>>]
Raised(nm, err) == [NoRet EXCEPT !.name = nm, !.kind = "raised", !.val = err]
Returned(nm) == [NoRet EXCEPT !.name = nm, !.kind = "ok"]

\* dict objects some reference still reaches
Roots(c, l, r) ==
  ({c} \cup {l[t].obj : t \in Threads} \cup {r[t].obj : t \in Threads})
    \ {NoObj}
\* the heap without its unreachable objects
Prune(h, roots) == [o \in ObjIds |-> IF o \in roots THEN h[o] ELSE EmptyTree]
NewObj(roots) == CHOOSE o \in ObjIds \ roots : \A u \in ObjIds \ roots : o <= u

(***************************************************************************)
(* ConfigCache (core/cache.py)                                             *)
(***************************************************************************)
\* should_reload with > for >=: no check when exactly one interval has passed
should_reload_strict ==
  IF cache_cache = NoObj THEN TRUE
  ELSE now - cache_last_reload_time > reload_interval_seconds

\* should_reload without the time window
should_reload_always == TRUE

\* should_reload (cache.py:48-59)
should_reload ==
  IF cache_cache = NoObj THEN TRUE
  ELSE now - cache_last_reload_time >= reload_interval_seconds

(***************************************************************************)
(* ReloadController (core/reload_controller.py)                            *)
(***************************************************************************)
\* the value has_file_changed returns (reload_controller.py:40-67)
has_file_changed ==
  IF rc_config_path = None THEN TRUE
  ELSE IF ~file.exists THEN rc_last_mtime # NoMtime
  ELSE IF rc_last_mtime = NoMtime THEN TRUE
  ELSE file.mtime # rc_last_mtime

\* _last_mtime after has_file_changed: it is overwritten on every path that
\* finds a difference (lines 53, 60, 64)
mtime_after_check ==
  IF rc_config_path = None THEN rc_last_mtime
  ELSE IF ~file.exists THEN NoMtime
  ELSE file.mtime

\* _update_mtime (reload_controller.py:33-38), with _config_path already set
update_mtime == IF file.exists THEN file.mtime ELSE NoMtime

(***************************************************************************)
(* pydash.get / pydash.set_ on the flat form                               *)
(***************************************************************************)
\* pydash.get(config, query, default) as get() returns it; a mapping is
\* returned by reference (object and path), a scalar by value
Lookup(nm, o, tr, query) ==
  IF query \in DOMAIN tr /\ tr[query] # EmptyDict
    THEN [NoRet EXCEPT !.name = nm, !.kind = "scalar", !.val = tr[query],
                       !.query = query]
  ELSE IF query = <<>> \/ \E p \in DOMAIN tr : IsPrefix(query, p)
    THEN [NoRet EXCEPT !.name = nm, !.kind = "ref", !.obj = o, !.query = query]
  ELSE [NoRet EXCEPT !.name = nm, !.kind = "default", !.query = query]

\* pydash.set_ that builds the path but loses the value
SetStep_lost(tr, query, value, i) ==
  IF i < Len(query) - 1
    THEN LET pre == SubSeq(query, 1, i + 1)
         IN  IF \E p \in DOMAIN tr : IsPrefix(pre, p) THEN tr
             ELSE Put(tr, pre, EmptyDict)
  ELSE tr

\* step i (0-based) of pydash.set_(config, query, value): the keys before the
\* last get an empty mapping where they are absent, the last key gets value
SetStep(tr, query, value, i) ==
  IF i < Len(query) - 1
    THEN LET pre == SubSeq(query, 1, i + 1)
         IN  IF \E p \in DOMAIN tr : IsPrefix(pre, p) THEN tr
             ELSE Put(tr, pre, EmptyDict)
  ELSE Put(tr, query, value)

\* pydash.set_ run to its end
RECURSIVE SetFrom(_, _, _, _)
SetFrom(tr, query, value, i) ==
  IF i >= Len(query) THEN tr
  ELSE SetFrom(SetStep(tr, query, value, i), query, value, i + 1)

(***************************************************************************)
(* History variables.                                                      *)
(*  hist.file_keys   key paths of the file's parsed content at the last    *)
(*                   successful read by load                               *)
(*  hist.file_writer who wrote the file last: "ext" or "sync"              *)
(*  hist.pend_api / hist.pend_any  values written by set() and neither     *)
(*                   synced nor dropped since; pend_api is emptied when a  *)
(*                   load()/reload() call replaces the cache, pend_any     *)
(*                   when any load does (also the one inside get)          *)
(*  hist.modtime     time of the last external rewrite of the file after   *)
(*                   a load, while it has stayed readable, else NoTime     *)
(*  hist.reloaded    a load has read the file since hist.modtime           *)
(*  hist.load_time   the cache timestamp set by the last load, or NoTime   *)
(*  hist.checks      has_file_changed calls made by get() calls that began *)
(*                   after that load and less than one interval after it   *)
(*  hist.defaults    default_config of the last load() call that succeeded *)
(*  obs[t]           what thread t's current call found when it began:     *)
(*    loaded         get(): a load had succeeded                           *)
(*    alone          get(): no other call was under way, and none has      *)
(*                   begun since                                           *)
(*    hot            get(): the content of the file, when it differs from  *)
(*                   the baseline, the interval has elapsed and no other   *)
(*                   call is under way; emptied when another call or an    *)
(*                   external change comes, and empty otherwise            *)
(*    snap_api/_any  get(): hist.pend_api / pend_any, less what a set or   *)
(*                   load changed while the get was under way              *)
(*    late           get(): it began more than one interval after          *)
(*                   hist.modtime and no load had read the file since      *)
(*    stale          get(): late, and no load had read it on return        *)
(*    inwin          get(): it began less than one interval after          *)
(*                   hist.load_time                                        *)
(*    before         set(): the tree before pydash.set_ touched it         *)
(***************************************************************************)
NoTime == NoMtime
HistInit ==
  [file_keys |-> {}, file_writer |-> "ext", pend_api |-> EmptyTree,
   pend_any |-> EmptyTree, modtime |-> NoTime, reloaded |-> FALSE,
   load_time |-> NoTime, checks |-> 0, defaults |-> EmptyTree]
NoObs ==
  [loaded |-> FALSE, alone |-> FALSE, hot |-> EmptyTree, snap_api |-> EmptyTree,
   snap_any |-> EmptyTree, late |-> FALSE, stale |-> FALSE, inwin |-> FALSE,
   before |-> EmptyTree]

Running(u) == pc[u] # "idle"

\* tr without the paths that overlap path
Forget(tr, path) ==
  [q \in {r \in DOMAIN tr : ~IsPrefix(r, path) /\ ~IsPrefix(path, r)} |-> tr[q]]

\* thread t begins a call: its own observations start afresh, and a get()
\* of another thread that is under way no longer runs alone
ObsCall(t, mine) ==
  [u \in Threads |->
     IF u = t THEN mine
     ELSE IF Running(u)
       THEN [obs[u] EXCEPT !.hot = EmptyTree, !.alone = FALSE]
     ELSE obs[u]]

\* what holds when get() begins
ObsGet(t) ==
  [loaded |-> mgr_config_path # None,
   alone |-> \A u \in Threads \ {t} : ~Running(u),
   hot |-> IF /\ mgr_config_path # None /\ cache_cache # NoObj
              /\ rc_config_path # None
              /\ file.exists /\ file.ok /\ file.mtime # rc_last_mtime
              /\ now - cache_last_reload_time >= reload_interval_seconds
              /\ \A u \in Threads \ {t} : ~Running(u)
           THEN file.content ELSE EmptyTree,
   snap_api |-> hist.pend_api,
   snap_any |-> hist.pend_any,
   late |-> /\ hist.modtime # NoTime
            /\ now - hist.modtime > reload_interval_seconds
            /\ ~hist.reloaded,
   stale |-> FALSE,
   inwin |-> /\ hist.load_time # NoTime
             /\ now < hist.load_time + reload_interval_seconds,
   before |-> EmptyTree]

(***************************************************************************)
(* The state after construction (manager.py:55-63, cache.py:27-29,         *)
(* reload_controller.py:21-22, main.py:19-21) with the file in place.      *)
(***************************************************************************)
InitManager ==
  /\ lock_mutex = 0
  /\ lock_readers = 0
  /\ cache_cache = NoObj
  /\ cache_last_reload_time = 0
  /\ rc_config_path = None
  /\ rc_last_mtime = NoMtime
  /\ mgr_config_path = None
  /\ mgr_default_config = EmptyTree
  /\ heap = [o \in ObjIds |-> EmptyTree]
  /\ file = [exists |-> TRUE, ok |-> TRUE, mtime |-> 0, content |-> FileV1]
  /\ now = StartTime
  /\ next = 0
  /\ pc = [t \in Threads |-> "idle"]
  /\ op = [t \in Threads |-> NoOp]
  /\ loc = [t \in Threads |-> NoLoc]
  /\ ret = [t \in Threads |-> NoRet]
  /\ nops = 0
  /\ hist = HistInit
  /\ obs = [t \in Threads |-> NoObs]

\* no call of ConfigMerger.merge or DirectoryConfigSource.read on its own
NotCalled == [fn |-> "none", val |-> EmptyTree]

\* no call made on the directory-backed manager
NoWatch ==
  [got |-> NotCalled, due |-> FALSE, prev_check |-> NoTime,
   last_check |-> NoTime]

\* the globals of config/main.py as the module defines them (lines 45-50)
NoCfg == [set |-> FALSE, val |-> EmptyTree]
NoFiles == [f \in {} |-> {}]
NoLhist == [base |-> None, last |-> "none", reloaded |-> FALSE]
InitGlobals ==
  /\ cfg = NoCfg
  /\ config_path_keys = NoFiles
  /\ file_cache = NoFiles
  /\ last_reload_time = 0
  /\ lhist = NoLhist

\* the directory-backed manager and the module-level loader left alone
InitIdle ==
  /\ watch = NoWatch
  /\ InitGlobals
  /\ disk = NoFiles
InitPure ==
  /\ merge_configs = <<>>
  /\ merged = NotCalled
  /\ fragments = <<>>
  /\ dir_result = NotCalled
  /\ InitIdle

Init == InitManager /\ lk = [t \in Threads |-> "idle"] /\ InitPure

(***************************************************************************)
(* Calling and returning.                                                  *)
(***************************************************************************)
\* thread t calls method nm and goes to position to
Call(t, nm, q, v, d, to) ==
  /\ pc[t] = "idle"
  /\ nops < MaxOps
  /\ nops' = nops + 1
  /\ pc' = [pc EXCEPT ![t] = to]
  /\ op' = [op EXCEPT ![t] = [name |-> nm, query |-> q, value |-> v]]
  /\ loc' = [loc EXCEPT ![t] = [NoLoc EXCEPT !.defaults = d]]
  /\ ret' = [ret EXCEPT ![t] = NoRet]
  /\ heap' = Prune(heap, Roots(cache_cache, loc', ret'))

\* the call of thread t ends, handing r to its caller (a result or an error)
Return(t, r, c, h) ==
  /\ pc' = [pc EXCEPT ![t] = "idle"]
  /\ op' = [op EXCEPT ![t] = NoOp]
  /\ loc' = [loc EXCEPT ![t] = NoLoc]
  /\ ret' = [ret EXCEPT ![t] = r]
  /\ heap' = Prune(h, Roots(c, loc', ret'))
  /\ UNCHANGED nops

Goto(t, to) ==
  /\ pc' = [pc EXCEPT ![t] = to]
  /\ UNCHANGED <<op, loc, ret, nops, heap>>

(***************************************************************************)
(* ConfigManager.load (manager.py:65-129)                                  *)
(***************************************************************************)
\* lines 90-98: the path is a .yaml path, so supports() holds
load(t) ==
  /\ \E d \in DefaultChoices : Call(t, "load", <<>>, "", d, "load_aw")
  /\ obs' = ObsCall(t, NoObs)
  /\ UNCHANGED <<lockvars, cachevars, rcvars, mgrvars, envvars, hist>>
  /\ UNCHANGED purevars

\* lines 90-93 for a path whose suffix the source does not support: load
\* raises ValueError before it takes the lock
load_unsupported(t) ==
  /\ pc[t] = "idle"
  /\ nops < MaxOps
  /\ nops' = nops + 1
  /\ ret' = [ret EXCEPT ![t] = Raised("load", "ValueError")]
  /\ heap' = Prune(heap, Roots(cache_cache, loc, ret'))
  /\ obs' = ObsCall(t, NoObs)
  /\ UNCHANGED <<pc, op, loc>>
  /\ UNCHANGED <<lockvars, cachevars, rcvars, mgrvars, envvars, hist>>
  /\ UNCHANGED purevars

\* line 100
load_aw(t) ==
  /\ pc[t] = "load_aw"
  /\ acquire_write(t)
  /\ Goto(t, IF lk'[t] = "write" THEN "load_read" ELSE "load_aw")
  /\ UNCHANGED <<cachevars, rcvars, mgrvars, envvars, histvars>>
  /\ UNCHANGED purevars

\* YamlConfigSource.read (yaml_source.py:21-53): the parsed file, or the
\* error it raises
ReadError ==
  IF ~file.exists THEN "FileNotFoundError"
  ELSE IF ~file.ok THEN "YAMLError"
  ELSE ""

\* lines 105-109: final_config
final_config(default_config, loaded_config) ==
  IF default_config # EmptyTree THEN merge(<<default_config, loaded_config>>)
  ELSE loaded_config

\* load whose failed read drops the cache and the baseline on its way out
load_read_reset(t) ==
  /\ pc[t] = "load_read"
  /\ IF ReadError # ""
       THEN /\ release_write(t)
            /\ Return(t, Raised(op[t].name, ReadError), NoObj, heap)
            /\ cache_cache' = NoObj
            /\ rc_last_mtime' = NoMtime
            /\ UNCHANGED <<hist, cache_last_reload_time, rc_config_path>>
       ELSE /\ pc' = [pc EXCEPT ![t] = "load_cache"]
            /\ loc' = [loc EXCEPT
                 ![t].tree = final_config(loc[t].defaults, file.content)]
            /\ hist' = [hist EXCEPT !.file_keys = DOMAIN file.content,
                                    !.reloaded = TRUE]
            /\ UNCHANGED <<lockvars, op, ret, nops, heap, cachevars, rcvars>>
  /\ UNCHANGED <<mgrvars, envvars, obs>>
  /\ UNCHANGED purevars

\* lines 103-109; an error of read leaves through the finally of line 129
load_read(t) ==
  /\ pc[t] = "load_read"
  /\ IF ReadError # ""
       THEN /\ release_write(t)
            /\ Return(t, Raised(op[t].name, ReadError), cache_cache, heap)
            /\ UNCHANGED hist
       ELSE /\ pc' = [pc EXCEPT ![t] = "load_cache"]
            /\ loc' = [loc EXCEPT
                 ![t].tree = final_config(loc[t].defaults, file.content)]
            /\ hist' = [hist EXCEPT !.file_keys = DOMAIN file.content,
                                    !.reloaded = TRUE]
            /\ UNCHANGED <<lockvars, op, ret, nops, heap>>
  /\ UNCHANGED <<cachevars, rcvars, mgrvars, envvars, obs>>
  /\ UNCHANGED purevars

\* load that merges what it read into the tree the cache held before
load_cache_keep(t) ==
  /\ pc[t] = "load_cache"
  /\ LET o == NewObj(Roots(cache_cache, loc, ret))
         api == op[t].name \in {"load", "reload"}
     IN  /\ cache_cache' = o
         /\ cache_last_reload_time' = now
         /\ loc' = [loc EXCEPT ![t].obj = o]
         /\ heap' = Prune([heap EXCEPT ![o] =
                            merge(<<IF cache_cache = NoObj THEN EmptyTree
                                    ELSE heap[cache_cache], loc[t].tree>>)],
                          Roots(o, loc', ret))
         /\ hist' = [hist EXCEPT
              !.pend_any = EmptyTree,
              !.pend_api = IF api THEN EmptyTree ELSE @,
              !.load_time = now,
              !.checks = 0]
         /\ obs' = [u \in Threads |->
              [obs[u] EXCEPT
                 !.snap_any = IF Running(u) THEN EmptyTree ELSE @,
                 !.snap_api = IF Running(u) /\ api THEN EmptyTree ELSE @,
                 !.inwin = IF Running(u) THEN FALSE ELSE @]]
  /\ pc' = [pc EXCEPT ![t] = "load_track"]
  /\ UNCHANGED <<lockvars, rcvars, mgrvars, envvars, op, ret, nops>>
  /\ UNCHANGED purevars

\* line 112: ConfigCache.set (cache.py:39-46); final_config is a new dict
load_cache(t) ==
  /\ pc[t] = "load_cache"
  /\ LET o == NewObj(Roots(cache_cache, loc, ret))
         api == op[t].name \in {"load", "reload"}
     IN  /\ cache_cache' = o
         /\ cache_last_reload_time' = now
         /\ loc' = [loc EXCEPT ![t].obj = o]
         /\ heap' = Prune([heap EXCEPT ![o] = loc[t].tree],
                          Roots(o, loc', ret))
         /\ hist' = [hist EXCEPT
              !.pend_any = EmptyTree,
              !.pend_api = IF api THEN EmptyTree ELSE @,
              !.load_time = now,
              !.checks = 0]
         /\ obs' = [u \in Threads |->
              [obs[u] EXCEPT
                 !.snap_any = IF Running(u) THEN EmptyTree ELSE @,
                 !.snap_api = IF Running(u) /\ api THEN EmptyTree ELSE @,
                 !.inwin = IF Running(u) THEN FALSE ELSE @]]
  /\ pc' = [pc EXCEPT ![t] = "load_track"]
  /\ UNCHANGED <<lockvars, rcvars, mgrvars, envvars, op, ret, nops>>
  /\ UNCHANGED purevars

\* lines 115-118: ReloadController.set_config_path (reload_controller.py:24-38)
load_track(t) ==
  /\ pc[t] = "load_track"
  /\ rc_config_path' = F
  /\ rc_last_mtime' = update_mtime
  /\ Goto(t, "load_store")
  /\ UNCHANGED <<lockvars, cachevars, mgrvars, envvars, histvars>>
  /\ UNCHANGED purevars

\* lines 121-129: the arguments are stored, the lock is released and
\* final_config goes to the caller; inside get() the caller is
\* _reload_if_needed, which drops it (line 251) and get goes on at line 154
load_store(t) ==
  /\ pc[t] = "load_store"
  /\ mgr_config_path' = F
  /\ mgr_default_config' = loc[t].defaults
  /\ release_write(t)
  /\ IF op[t].name = "get"
       THEN /\ pc' = [pc EXCEPT ![t] = "get_ar"]
            /\ loc' = [loc EXCEPT ![t] = NoLoc]
            /\ heap' = Prune(heap, Roots(cache_cache, loc', ret))
            /\ UNCHANGED <<op, ret, nops>>
       ELSE Return(t, [NoRet EXCEPT !.name = op[t].name, !.kind = "ref",
                                    !.obj = loc[t].obj],
                   cache_cache, heap)
  /\ hist' = IF op[t].name = "load"
               THEN [hist EXCEPT !.defaults = loc[t].defaults] ELSE hist
  /\ UNCHANGED <<cachevars, rcvars, envvars, obs>>
  /\ UNCHANGED purevars

(***************************************************************************)
(* ConfigManager.get (manager.py:131-166) and _reload_if_needed (239-251)  *)
(***************************************************************************)
\* line 152 -> line 246.  The query is not read before line 163, so it is
\* drawn there.
get(t) ==
  /\ Call(t, "get", <<>>, "", EmptyTree,
          IF should_reload THEN "get_check" ELSE "get_ar")
  /\ obs' = ObsCall(t, ObsGet(t))
  /\ UNCHANGED <<lockvars, cachevars, rcvars, mgrvars, envvars, hist>>
  /\ UNCHANGED purevars

\* line 249: has_file_changed(), called without the lock
get_check(t) ==
  /\ pc[t] = "get_check"
  /\ rc_last_mtime' = mtime_after_check
  /\ Goto(t, IF has_file_changed THEN "get_reload" ELSE "get_ar")
  /\ hist' = [hist EXCEPT
       !.checks = IF obs[t].inwin /\ @ < 2 THEN @ + 1 ELSE @]
  /\ UNCHANGED <<lockvars, cachevars, rc_config_path, mgrvars, envvars, obs>>
  /\ UNCHANGED purevars

\* line 251 -> reload (lines 234-237): raises when nothing was loaded, else
\* calls load with the stored arguments
get_reload(t) ==
  /\ pc[t] = "get_reload"
  /\ IF mgr_config_path = None
       THEN Return(t, Raised("get", "RuntimeError"), cache_cache, heap)
       ELSE /\ pc' = [pc EXCEPT ![t] = "load_aw"]
            /\ loc' = [loc EXCEPT ![t].defaults = mgr_default_config]
            /\ UNCHANGED <<op, ret, nops, heap>>
  /\ UNCHANGED <<lockvars, cachevars, rcvars, mgrvars, envvars, histvars>>
  /\ UNCHANGED purevars

\* line 154
get_ar(t) ==
  /\ pc[t] = "get_ar"
  /\ acquire_read(t)
  /\ Goto(t, "get_read")
  /\ UNCHANGED <<cachevars, rcvars, mgrvars, envvars, histvars>>
  /\ UNCHANGED purevars

\* what lines 156-163 return for query q
get_result(q) ==
  IF cache_cache = NoObj
    THEN [NoRet EXCEPT !.name = "get", !.kind = "default", !.query = q]
  ELSE Lookup("get", cache_cache, heap[cache_cache], q)

\* lines 156-166
get_read(t) ==
  /\ pc[t] = "get_read"
  /\ release_read(t)
  /\ \E q \in GetQueries : Return(t, get_result(q), cache_cache, heap)
  /\ obs' = [obs EXCEPT ![t].stale = obs[t].late /\ ~hist.reloaded]
  /\ UNCHANGED <<cachevars, rcvars, mgrvars, envvars, hist>>
  /\ UNCHANGED purevars

(***************************************************************************)
(* ConfigManager.set (manager.py:168-192)                                  *)
(***************************************************************************)
set(t) ==
  /\ \E c \in SetCalls : Call(t, "set", c[1], c[2], EmptyTree, "set_aw")
  /\ obs' = ObsCall(t, NoObs)
  /\ UNCHANGED <<lockvars, cachevars, rcvars, mgrvars, envvars, hist>>
  /\ UNCHANGED purevars

\* line 182
set_aw(t) ==
  /\ pc[t] = "set_aw"
  /\ acquire_write(t)
  /\ Goto(t, IF lk'[t] = "write" THEN "set_path" ELSE "set_aw")
  /\ UNCHANGED <<cachevars, rcvars, mgrvars, envvars, histvars>>
  /\ UNCHANGED purevars

\* lines 184-188: config is the cached dict itself, or a new one; pydash.set_
\* then changes it in place, one key of the query per step
set_path(t) ==
  /\ pc[t] = "set_path"
  /\ LET o == IF loc[t].obj # NoObj THEN loc[t].obj
              ELSE IF cache_cache # NoObj THEN cache_cache
              ELSE NewObj(Roots(cache_cache, loc, ret))
         i == loc[t].i
     IN  /\ loc' = [loc EXCEPT ![t].obj = o, ![t].i = i + 1]
         /\ heap' = [heap EXCEPT
              ![o] = SetStep(heap[o], op[t].query, op[t].value, i)]
         /\ pc' = [pc EXCEPT
              ![t] = IF i + 1 < Len(op[t].query) THEN "set_path"
                     ELSE "set_cache"]
  /\ hist' = [hist EXCEPT !.pend_api = Forget(@, op[t].query),
                          !.pend_any = Forget(@, op[t].query)]
  /\ obs' = [u \in Threads |->
       IF u = t /\ loc[t].i = 0
         THEN [obs[u] EXCEPT !.before = heap[loc'[t].obj]]
       ELSE IF Running(u)
         THEN [obs[u] EXCEPT !.snap_api = Forget(@, op[t].query),
                             !.snap_any = Forget(@, op[t].query)]
       ELSE obs[u]]
  /\ UNCHANGED <<lockvars, cachevars, rcvars, mgrvars, envvars, op, ret, nops>>
  /\ UNCHANGED purevars

\* set that also writes the tree to the backing file
set_cache_persist(t) ==
  /\ pc[t] = "set_cache"
  /\ cache_cache' = loc[t].obj
  /\ cache_last_reload_time' = now
  /\ release_write(t)
  /\ Return(t, Returned("set"), loc[t].obj, heap)
  /\ hist' = [hist EXCEPT !.pend_api = Put(@, op[t].query, op[t].value),
                          !.pend_any = Put(@, op[t].query, op[t].value)]
  /\ file' = [exists |-> TRUE, ok |-> TRUE, mtime |-> now,
              content |-> heap[loc[t].obj]]
  /\ UNCHANGED <<rcvars, mgrvars, now, next, obs>>
  /\ UNCHANGED purevars

\* lines 189-192: ConfigCache.set(config), then the lock is released
set_cache(t) ==
  /\ pc[t] = "set_cache"
  /\ cache_cache' = loc[t].obj
  /\ cache_last_reload_time' = now
  /\ release_write(t)
  /\ Return(t, Returned("set"), loc[t].obj, heap)
  /\ hist' = [hist EXCEPT !.pend_api = Put(@, op[t].query, op[t].value),
                          !.pend_any = Put(@, op[t].query, op[t].value)]
  /\ UNCHANGED <<rcvars, mgrvars, envvars, obs>>
  /\ UNCHANGED purevars

(***************************************************************************)
(* ConfigManager.sync (manager.py:194-220)                                 *)
(***************************************************************************)
\* lines 203-204
sync(t) ==
  /\ Call(t, "sync", <<>>, "", EmptyTree,
          IF mgr_config_path = None THEN "sync_raise" ELSE "sync_ar")
  /\ obs' = ObsCall(t, NoObs)
  /\ UNCHANGED <<lockvars, cachevars, rcvars, mgrvars, envvars, hist>>
  /\ UNCHANGED purevars

\* sync on a manager that was never loaded, dropping the cache as it fails
sync_raise_clear(t) ==
  /\ pc[t] = "sync_raise"
  /\ cache_cache' = NoObj
  /\ Return(t, Raised("sync", "RuntimeError"), NoObj, heap)
  /\ UNCHANGED <<lockvars, cache_last_reload_time, rcvars, mgrvars, envvars,
                 histvars>>
  /\ UNCHANGED purevars

\* line 204
sync_raise(t) ==
  /\ pc[t] = "sync_raise"
  /\ Return(t, Raised("sync", "RuntimeError"), cache_cache, heap)
  /\ UNCHANGED <<lockvars, cachevars, rcvars, mgrvars, envvars, histvars>>
  /\ UNCHANGED purevars

\* line 206
sync_ar(t) ==
  /\ pc[t] = "sync_ar"
  /\ acquire_read(t)
  /\ Goto(t, "sync_write")
  /\ UNCHANGED <<cachevars, rcvars, mgrvars, envvars, histvars>>
  /\ UNCHANGED purevars

\* YamlConfigSource.write (yaml_source.py:55-79): the file holds the dumped
\* tree and its mtime is the time of the write
written(config) ==
  [exists |-> TRUE, ok |-> TRUE, mtime |-> now, content |-> config]

\* lines 208-220: the whole cached config goes to the file
sync_write(t) ==
  /\ pc[t] = "sync_write"
  /\ release_read(t)
  /\ IF cache_cache = NoObj
       THEN /\ Return(t, Raised("sync", "RuntimeError"), cache_cache, heap)
            /\ UNCHANGED <<file, histvars>>
       ELSE /\ file' = written(heap[cache_cache])
            /\ Return(t, Returned("sync"), cache_cache, heap)
            /\ hist' = [hist EXCEPT !.file_writer = "sync",
                                    !.pend_api = EmptyTree,
                                    !.pend_any = EmptyTree]
            /\ obs' = [u \in Threads |->
                 IF Running(u)
                   THEN [obs[u] EXCEPT !.snap_api = EmptyTree,
                                       !.snap_any = EmptyTree]
                 ELSE obs[u]]
  /\ UNCHANGED <<cachevars, rcvars, mgrvars, now, next>>
  /\ UNCHANGED purevars

(***************************************************************************)
(* ConfigManager.reload (manager.py:222-237)                               *)
(***************************************************************************)
\* reload that forgets the recorded default_config
reload_no_defaults(t) ==
  /\ Call(t, "reload", <<>>, "", EmptyTree,
          IF mgr_config_path = None THEN "reload_raise" ELSE "load_aw")
  /\ obs' = ObsCall(t, NoObs)
  /\ UNCHANGED <<lockvars, cachevars, rcvars, mgrvars, envvars, hist>>
  /\ UNCHANGED purevars

\* lines 234-237
reload(t) ==
  /\ Call(t, "reload", <<>>, "", mgr_default_config,
          IF mgr_config_path = None THEN "reload_raise" ELSE "load_aw")
  /\ obs' = ObsCall(t, NoObs)
  /\ UNCHANGED <<lockvars, cachevars, rcvars, mgrvars, envvars, hist>>
  /\ UNCHANGED purevars

\* line 235
reload_raise(t) ==
  /\ pc[t] = "reload_raise"
  /\ Return(t, Raised("reload", "RuntimeError"), cache_cache, heap)
  /\ UNCHANGED <<lockvars, cachevars, rcvars, mgrvars, envvars, histvars>>
  /\ UNCHANGED purevars

(***************************************************************************)
(* The environment: the clock and whoever else writes the file.            *)
(***************************************************************************)
Tick ==
  /\ now < MaxTime
  /\ now' = now + 1
  /\ UNCHANGED <<lockvars, cachevars, rcvars, mgrvars, heap, file, next,
                 thrvars, histvars>>
  /\ UNCHANGED purevars

\* an external change drops what the get() calls under way were to show
ObsExt ==
  [u \in Threads |->
     IF Running(u) THEN [obs[u] EXCEPT !.hot = EmptyTree, !.late = FALSE]
     ELSE obs[u]]

ExtChange(f, readable) ==
  /\ next < MaxExt
  /\ next' = next + 1
  /\ file' = f
  /\ hist' = [hist EXCEPT !.file_writer = "ext",
                          !.modtime = IF readable /\ mgr_config_path # None
                                        THEN now ELSE NoTime,
                          !.reloaded = FALSE]
  /\ obs' = ObsExt
  /\ UNCHANGED <<lockvars, cachevars, rcvars, mgrvars, heap, now, thrvars>>
  /\ UNCHANGED purevars

\* the file is rewritten with other content
ExtWrite == ExtChange(written(FileV2), TRUE)

\* the file is deleted
ExtDelete ==
  /\ file.exists
  /\ ExtChange([exists |-> FALSE, ok |-> FALSE, mtime |-> 0,
                content |-> EmptyTree], FALSE)

\* the file is overwritten with text that is no YAML
ExtCorrupt ==
  ExtChange([exists |-> TRUE, ok |-> FALSE, mtime |-> now,
             content |-> EmptyTree], FALSE)

Next ==
  \/ \E t \in Threads :
       \/ load(t) \/ load_unsupported(t)
       \/ load_aw(t) \/ load_read(t) \/ load_cache(t)
       \/ load_track(t) \/ load_store(t)
       \/ get(t) \/ get_check(t) \/ get_reload(t) \/ get_ar(t) \/ get_read(t)
       \/ set(t) \/ set_aw(t) \/ set_path(t) \/ set_cache(t)
       \/ sync(t) \/ sync_raise(t) \/ sync_ar(t) \/ sync_write(t)
       \/ reload(t) \/ reload_raise(t)
  \/ Tick \/ ExtWrite \/ ExtDelete \/ ExtCorrupt

Spec == Init /\ [][Next]_vars

(***************************************************************************)
(***************************************************************************)
(* The ConfigManager under a fair scheduler: a thread that is inside a     *)
(* call and can take its next step eventually takes it.  Nothing obliges   *)
(* a thread to begin a call, the clock to advance or the file to change.   *)
(* The file changes by being deleted (sync() writes it anew), which, with  *)
(* the clock, takes the calls through every branch that touches the lock:  *)
(* a read that fails, a get() that reloads, a reload that succeeds.        *)
(***************************************************************************)
\* thread t begins a call
Calls(t) ==
  \/ load(t) \/ load_unsupported(t) \/ get(t) \/ set(t) \/ sync(t)
  \/ reload(t)

\* the next step of the call thread t is in
Proceed(t) ==
  \/ load_aw(t) \/ load_read(t) \/ load_cache(t) \/ load_track(t)
  \/ load_store(t)
  \/ get_check(t) \/ get_reload(t) \/ get_ar(t) \/ get_read(t)
  \/ set_aw(t) \/ set_path(t) \/ set_cache(t)
  \/ sync_raise(t) \/ sync_ar(t) \/ sync_write(t)
  \/ reload_raise(t)

NextLive ==
  \/ \E t \in Threads : Calls(t) \/ Proceed(t)
  \/ Tick \/ ExtDelete

SpecLive ==
  Init /\ [][NextLive]_vars /\ \A t \in Threads : WF_vars(Proceed(t))

(* The bare RWLock under arbitrary callers: every thread may call          *)
(* acquire_read / acquire_write when it holds nothing and releases what    *)
(* it holds.                                                               *)
(***************************************************************************)
InitLock == InitManager /\ lk = [t \in LockClients |-> "idle"] /\ InitPure

restvars ==
  <<cachevars, rcvars, mgrvars, heap, envvars, thrvars, histvars, purevars>>

client_acquire_read(t) == acquire_read(t) /\ UNCHANGED restvars
client_release_read(t) == release_read(t) /\ UNCHANGED restvars
client_acquire_write(t) == acquire_write(t) /\ UNCHANGED restvars
client_release_write(t) == release_write(t) /\ UNCHANGED restvars

NextLock ==
  \E t \in LockClients :
    \/ client_acquire_read(t) \/ client_release_read(t)
    \/ client_acquire_write(t) \/ client_release_write(t)

SpecLock == InitLock /\ [][NextLock]_vars

HoldsRead(t) == lk[t] = "read"
HoldsWrite(t) == lk[t] = "write"

(***************************************************************************)
(* ConfigMerger.merge (merger.py:15-41) and the merge step of load         *)
(* (manager.py:105-109) applied to trees drawn from a bounded set.         *)
(***************************************************************************)
\* the one-key tree {k: [elems...]}
ListTree(k, elems) ==
  IF elems = <<>> THEN Leaf(<<k>>, EmptyList)
  ELSE [p \in {<<k, ListIndex[i]>> : i \in 1 .. Len(elems)}
          |-> elems[IndexOf(p[2])]]

\* what a tree may hold at key "a": nothing, a scalar, a list, a mapping
ValuesA ==
  { EmptyTree,
    Leaf(<<"a">>, "1"), Leaf(<<"a">>, "2"),
    ListTree("a", <<>>), ListTree("a", <<"9">>), ListTree("a", <<"1", "2">>),
    Leaf(<<"a">>, EmptyDict),
    Leaf(<<"a", "x">>, "1"), Leaf(<<"a", "y">>, "2"),
    Leaf(<<"a", "x">>, "2") @@ Leaf(<<"a", "y">>, "1"),
    Under("a", ListTree("x", <<"9">>)),
    Under("a", ListTree("x", <<"1", "2">>)) }
\* and at key "b"
ValuesB == {EmptyTree, Leaf(<<"b">>, "1")}
MergeTrees == {va @@ vb : va \in ValuesA, vb \in ValuesB}

InitMerge ==
  /\ InitManager /\ lk = [t \in Threads |-> "idle"]
  /\ merge_configs \in UNION {[1 .. n -> MergeTrees] : n \in 0 .. MaxConfigs}
  /\ merged = NotCalled
  /\ fragments = <<>>
  /\ dir_result = NotCalled
  /\ InitIdle

mgrstate ==
  <<lockvars, cachevars, rcvars, mgrvars, heap, envvars, thrvars, histvars>>

\* ConfigMerger.merge(*merge_configs)
call_merge ==
  /\ merged = NotCalled
  /\ merged' = [fn |-> "merge", val |-> merge(merge_configs)]
  /\ UNCHANGED <<mgrstate, merge_configs, fragments, dir_result, watch,
                 legacyvars>>

\* lines 105-109 of load with default_config = merge_configs[1] and
\* loaded_config = merge_configs[2]
call_final_config ==
  /\ merged = NotCalled
  /\ Len(merge_configs) = 2
  /\ merged' = [fn |-> "final_config",
                val |-> final_config(merge_configs[1], merge_configs[2])]
  /\ UNCHANGED <<mgrstate, merge_configs, fragments, dir_result, watch,
                 legacyvars>>

NextMerge == call_merge \/ call_final_config

SpecMerge == InitMerge /\ [][NextMerge]_vars

(***************************************************************************)
(* DirectoryConfigSource._read_directory (directory_source.py:48-80) on a  *)
(* directory of YAML files.  fragments lists the files in the order of     *)
(* sorted(glob("*.yaml") + glob("*.yml")), i.e. by file name; a file is    *)
(* readable (YamlConfigSource.read returns its content) or not (it         *)
(* raises).                                                                *)
(***************************************************************************)
Unreadable == [ok |-> FALSE, content |-> EmptyTree]
Fragment(tree) == [ok |-> TRUE, content |-> tree]
\* a fragment with a priority key that sets db.host
Prioritized(prio, host) ==
  Fragment(Leaf(<<"priority">>, prio) @@ Leaf(<<"db", "host">>, host))
FragmentChoices ==
  { Unreadable,
    Prioritized("1", "a"), Prioritized("2", "b"), Prioritized("3", "c"),
    Fragment(Leaf(<<"db", "port">>, "1")) }

InitDir ==
  /\ InitManager /\ lk = [t \in Threads |-> "idle"]
  /\ merge_configs = <<>>
  /\ merged = NotCalled
  /\ fragments \in UNION {[1 .. n -> FragmentChoices] : n \in 0 .. MaxFiles}
  /\ dir_result = NotCalled
  /\ InitIdle

\* lines 65-77: the loop over yaml_files from file i on; a file that fails
\* is skipped
RECURSIVE read_from(_, _, _)
read_from(yaml_files, i, merged_config) ==
  IF i > Len(yaml_files) THEN merged_config
  ELSE read_from(yaml_files, i + 1,
                 IF yaml_files[i].ok
                   THEN merge(<<merged_config, yaml_files[i].content>>)
                 ELSE merged_config)

\* _read_directory: {} for a directory without YAML files (lines 61-63),
\* else the merge of the readable files in file name order
read_directory(yaml_files) ==
  IF Len(yaml_files) = 0 THEN EmptyTree
  ELSE read_from(yaml_files, 1, EmptyTree)

call_read_directory ==
  /\ dir_result = NotCalled
  /\ dir_result' = [fn |-> "returned", val |-> read_directory(fragments)]
  /\ UNCHANGED <<mgrstate, merge_configs, merged, fragments, watch,
                 legacyvars>>

NextDir == call_read_directory

SpecDir == InitDir /\ [][NextDir]_vars

(***************************************************************************)
(* A ConfigManager whose source is a DirectoryConfigSource (the default,   *)
(* manager.py:55), loaded with a directory and used by one caller, so      *)
(* that every call runs from its first line to its last without another    *)
(* call in between.  Here file stands for the directory itself, the path   *)
(* the reload controller tracks: its mtime changes when an entry is        *)
(* created or removed in it, not when a file in it is rewritten in place.  *)
(* fragments are the YAML files in it, each with its own mtime.            *)
(***************************************************************************)
ConfigDir == "config"                    \* the directory given to load()
WatchFragment(tree, m) == [ok |-> TRUE, content |-> tree, mtime |-> m]
WatchTrees == {Leaf(<<"a">>, "1"), Leaf(<<"a">>, "2"), Leaf(<<"b">>, "1")}

InitWatch ==
  /\ lock_mutex = 0
  /\ lock_readers = 0
  /\ lk = [t \in Threads |-> "idle"]
  /\ cache_cache = NoObj
  /\ cache_last_reload_time = 0
  /\ rc_config_path = None
  /\ rc_last_mtime = NoMtime
  /\ mgr_config_path = None
  /\ mgr_default_config = EmptyTree
  /\ heap = [o \in ObjIds |-> EmptyTree]
  /\ file = [exists |-> TRUE, ok |-> TRUE, mtime |-> 0, content |-> EmptyTree]
  /\ now = StartTime
  /\ next = 0
  /\ pc = [t \in Threads |-> "idle"]
  /\ op = [t \in Threads |-> NoOp]
  /\ loc = [t \in Threads |-> NoLoc]
  /\ ret = [t \in Threads |-> NoRet]
  /\ nops = 0
  /\ hist = HistInit
  /\ obs = [t \in Threads |-> NoObs]
  /\ merge_configs = <<>>
  /\ merged = NotCalled
  /\ fragments \in UNION {[1 .. n -> {WatchFragment(tr, 0) : tr \in WatchTrees}]
                            : n \in 1 .. 2}
  /\ dir_result = NotCalled
  /\ watch = NoWatch
  /\ InitGlobals
  /\ disk = NoFiles

\* what no call on the directory-backed manager touches
watchrest ==
  <<lockvars, thrvars, histvars, merge_configs, merged, dir_result, legacyvars>>

\* load (manager.py:100-129) on the directory with default_config d: the
\* read, the merge with the defaults, ConfigCache.set, set_config_path and
\* the recording of the arguments
DirLoad(d) ==
  LET o == NewObj(Roots(cache_cache, loc, ret))
  IN  /\ cache_cache' = o
      /\ cache_last_reload_time' = now
      /\ heap' = Prune([heap EXCEPT
                          ![o] = final_config(d, read_directory(fragments))],
                       {o})
      /\ rc_config_path' = ConfigDir
      /\ rc_last_mtime' = update_mtime
      /\ mgr_config_path' = ConfigDir
      /\ mgr_default_config' = d

\* load(ConfigDir, default_config=d)
watch_load(d) ==
  /\ DirLoad(d)
  /\ watch' = [watch EXCEPT
       !.got = [fn |-> "load", val |-> heap'[cache_cache']],
       !.due = FALSE]
  /\ UNCHANGED <<watchrest, envvars, fragments>>

\* get() (manager.py:152-166 with _reload_if_needed, 239-251)
watch_get ==
  LET check == should_reload
      changed == check /\ has_file_changed
      logged ==
        [watch EXCEPT
           !.due = cache_cache # NoObj /\ mgr_config_path # None /\ check,
           !.prev_check = IF check /\ rc_config_path # None
                            THEN watch.last_check ELSE @,
           !.last_check = IF check /\ rc_config_path # None THEN now ELSE @]
  IN  /\ IF changed /\ mgr_config_path = None
           THEN /\ rc_last_mtime' = mtime_after_check
                /\ watch' = [logged EXCEPT
                     !.got = [fn |-> "raised", val |-> EmptyTree]]
                /\ UNCHANGED <<cachevars, heap, rc_config_path, mgrvars>>
         ELSE IF changed
           THEN /\ DirLoad(mgr_default_config)
                /\ watch' = [logged EXCEPT
                     !.got = [fn |-> "get", val |-> heap'[cache_cache']]]
         ELSE /\ rc_last_mtime' = IF check THEN mtime_after_check
                                  ELSE rc_last_mtime
              /\ watch' = [logged EXCEPT
                   !.got = [fn |-> "get",
                            val |-> IF cache_cache = NoObj THEN EmptyTree
                                    ELSE heap[cache_cache]]]
              /\ UNCHANGED <<cachevars, heap, rc_config_path, mgrvars>>
      /\ UNCHANGED <<watchrest, envvars, fragments>>

\* somebody changes the directory: what the last call returned is no
\* longer compared with the files
Changed(frs, d) ==
  /\ next < MaxExt
  /\ next' = next + 1
  /\ fragments' = frs
  /\ file' = d
  /\ watch' = [watch EXCEPT !.got = NotCalled, !.due = FALSE]
  /\ UNCHANGED <<watchrest, cachevars, rcvars, mgrvars, heap, now>>

\* fragment i is rewritten in place with other content: the file gets a
\* new mtime, the directory keeps its own
ext_modify(i, tree) ==
  /\ tree # fragments[i].content
  /\ Changed([fragments EXCEPT ![i] = WatchFragment(tree, now)], file)

\* a YAML file is created in the directory (its name sorts last)
ext_add(tree) ==
  /\ Len(fragments) < MaxFiles
  /\ Changed(Append(fragments, WatchFragment(tree, now)),
             [file EXCEPT !.mtime = now])

\* fragment i is deleted
ext_remove(i) ==
  Changed(SubSeq(fragments, 1, i - 1)
            \o SubSeq(fragments, i + 1, Len(fragments)),
          [file EXCEPT !.mtime = now])

NextWatch ==
  \/ \E d \in DefaultChoices : watch_load(d)
  \/ watch_get
  \/ Tick
  \/ \E i \in 1 .. Len(fragments), tree \in WatchTrees : ext_modify(i, tree)
  \/ \E i \in 1 .. Len(fragments) : ext_remove(i)
  \/ \E tree \in WatchTrees : ext_add(tree)

SpecWatch == InitWatch /\ [][NextWatch]_vars

(***************************************************************************)
(* The module-level loader of config/main.py (lines 45-296): load_config,  *)
(* get_config and sync_config on the globals _cfg, _config_path_keys,      *)
(* _file_cache and _last_reload_time, used by one caller, so that every    *)
(* call runs from its first line to its last.  A key path "a.b" is kept    *)
(* as the sequence of its keys; no key of the trees holds a dot.           *)
(***************************************************************************)
\* _reload_check_interval (main.py:50), in clock ticks
reload_check_interval == 2

DefaultBase == "cwd/config"              \* Path.cwd() / "config"
CustomBase == "custom"                   \* a path given to load_config
\* the YAML files there may be, in the order os.walk lists them
LegacyFiles == <<"cwd/config/app.yaml", "custom/app.yaml", "custom/db.yaml">>
BaseOf(f) == IF f = "cwd/config/app.yaml" THEN DefaultBase ELSE CustomBase
FileSet == {LegacyFiles[i] : i \in 1 .. Len(LegacyFiles)}

Absent == [exists |-> FALSE, ok |-> FALSE, mtime |-> 0, content |-> EmptyTree]
Broken(m) == [exists |-> TRUE, ok |-> FALSE, mtime |-> m, content |-> EmptyTree]
OnDisk(tree, m) == [exists |-> TRUE, ok |-> TRUE, mtime |-> m, content |-> tree]
LegacyTrees ==
  { Leaf(<<"a">>, "1"),
    Leaf(<<"a", "x">>, "1") @@ Leaf(<<"priority">>, "1") }

InitLegacy ==
  /\ InitManager /\ lk = [t \in Threads |-> "idle"]
  /\ merge_configs = <<>>
  /\ merged = NotCalled
  /\ fragments = <<>>
  /\ dir_result = NotCalled
  /\ watch = NoWatch
  /\ InitGlobals
  /\ disk \in [FileSet -> {Absent, Broken(0)}
                            \cup {OnDisk(tr, 0) : tr \in LegacyTrees}]
  /\ disk[LegacyFiles[1]] \in {Absent, OnDisk(Leaf(<<"a">>, "1"), 0)}

\* _scan_yaml_files(base) for a directory base (lines 59-64)
scan_yaml_files(base) ==
  SelectSeq(LegacyFiles, LAMBDA f : BaseOf(f) = base /\ disk[f].exists)

\* _read_yaml_cached(path) (lines 67-96) with _file_cache = fc: the content
\* it returns and _file_cache afterwards
read_yaml_cached(fc, path) ==
  IF ~disk[path].exists THEN [content |-> EmptyTree, fc |-> fc]
  ELSE IF path \in DOMAIN fc /\ fc[path].mtime = disk[path].mtime
    THEN [content |-> fc[path].content, fc |-> fc]
  ELSE IF ~disk[path].ok THEN [content |-> EmptyTree, fc |-> fc]
  ELSE [content |-> disk[path].content,
        fc |-> (path :> [mtime |-> disk[path].mtime,
                         content |-> disk[path].content]) @@ fc]

\* _collect_key_paths(obj) (lines 99-107): the paths to the values that are
\* no dict; an empty dict contributes none
RECURSIVE collect_key_paths(_)
collect_key_paths(obj) ==
  UNION { IF IsMapping(obj, k)
            THEN {<<k>> \o q : q \in collect_key_paths(Sub(obj, k))}
          ELSE {<<k>>}
          : k \in Keys(obj) }

\* o.get("priority", -1) (line 150)
priority(o) ==
  IF <<"priority">> \notin DOMAIN o THEN -1
  ELSE IF o[<<"priority">>] = "1" THEN 1
  ELSE IF o[<<"priority">>] = "2" THEN 2
  ELSE 3

\* sorted(contents, key=priority) (line 150); sorted is stable
sorted_contents(contents) ==
  LET n == Len(contents)
      rank(i) ==
        Cardinality({j \in 1 .. n :
                       \/ priority(contents[j]) < priority(contents[i])
                       \/ /\ priority(contents[j]) = priority(contents[i])
                          /\ j < i}) + 1
  IN  [r \in 1 .. n |-> contents[CHOOSE i \in 1 .. n : rank(i) = r]]

\* the loop of lines 134-142 from file i on; acc holds _file_cache,
\* _config_path_keys and contents
RECURSIVE load_files(_, _, _)
load_files(config_paths, i, acc) ==
  IF i > Len(config_paths) THEN acc
  ELSE LET p == config_paths[i]
           item == read_yaml_cached(acc.fc, p)
       IN  load_files(config_paths, i + 1,
             IF item.content # EmptyTree
               THEN [fc |-> item.fc,
                     keys |-> (p :> collect_key_paths(item.content))
                                @@ acc.keys,
                     contents |-> Append(acc.contents, item.content)]
             ELSE [acc EXCEPT !.fc = item.fc])

\* _load_config_unlocked(path) (lines 110-155) for base = path or the
\* default: whether it raises, and the globals it leaves.  The fold of
\* pydash.merge over the sorted contents (lines 152-153) is merge.
load_config_unlocked(base) ==
  LET config_paths == scan_yaml_files(base)
      acc == load_files(config_paths, 1,
                        [fc |-> file_cache, keys |-> NoFiles,
                         contents |-> <<>>])
      failed == Len(config_paths) > 0 /\ Len(acc.contents) = 0
  IN  [raised |-> failed,
       cfg |-> IF failed THEN cfg
               ELSE [set |-> TRUE,
                     val |-> merge(sorted_contents(acc.contents))],
       keys |-> acc.keys,
       fc |-> acc.fc]

\* need_reload of _reload_if_needed (lines 170-189)
need_reload ==
  \/ ~cfg.set
  \/ \E path \in DOMAIN config_path_keys :
       \/ ~disk[path].exists
       \/ path \notin DOMAIN file_cache
       \/ file_cache[path].mtime # disk[path].mtime

\* _reload_if_needed() (lines 158-204): whether it reloaded, whether the
\* reload raised, and the globals it leaves
reload_if_needed ==
  IF now - last_reload_time < reload_check_interval \/ ~need_reload
    THEN [reloaded |-> FALSE, raised |-> FALSE, cfg |-> cfg,
          keys |-> config_path_keys, fc |-> file_cache,
          lrt |-> last_reload_time]
  ELSE LET r == load_config_unlocked(DefaultBase)
       IN  [reloaded |-> ~r.raised, raised |-> r.raised, cfg |-> r.cfg,
            keys |-> r.keys, fc |-> r.fc,
            lrt |-> IF r.raised THEN last_reload_time ELSE now]

\* what no call of the module-level API touches
legacyrest ==
  <<mgrstate, merge_configs, merged, fragments, dir_result, watch>>

\* load_config(path) (lines 210-221); path = None is the default base
load_config(path) ==
  LET base == IF path = None THEN DefaultBase ELSE path
      r == load_config_unlocked(base)
  IN  /\ cfg' = r.cfg
      /\ config_path_keys' = r.keys
      /\ file_cache' = r.fc
      /\ lhist' = [base |-> IF r.raised THEN lhist.base ELSE base,
                   last |-> IF r.raised THEN "raised" ELSE "load",
                   reloaded |-> FALSE]
      /\ UNCHANGED <<last_reload_time, disk, legacyrest>>

\* get_config() (lines 239-255)
get_config ==
  LET r == reload_if_needed
  IN  /\ cfg' = r.cfg
      /\ config_path_keys' = r.keys
      /\ file_cache' = r.fc
      /\ last_reload_time' = r.lrt
      /\ lhist' = [lhist EXCEPT
           !.last = IF r.raised \/ ~r.cfg.set THEN "raised" ELSE "get",
           !.reloaded = r.reloaded]
      /\ UNCHANGED <<disk, legacyrest>>

\* new_content of sync_config for one file (lines 271-276): the values
\* pydash.get finds in config at the file's key paths
new_content(config, keys) ==
  [p \in {q \in DOMAIN config : \E key \in keys : IsPrefix(key, q)}
     |-> config[p]]

\* sync_config() (lines 258-296): every file of _config_path_keys is
\* rewritten and its _file_cache entry replaced
sync_config ==
  LET r == reload_if_needed
      wrote == ~r.raised /\ r.cfg.set
      out(path) == new_content(r.cfg.val, r.keys[path])
  IN  /\ cfg' = r.cfg
      /\ config_path_keys' = r.keys
      /\ IF wrote
           THEN /\ disk' = [path \in FileSet |->
                              IF path \in DOMAIN r.keys
                                THEN OnDisk(out(path), now)
                              ELSE disk[path]]
                /\ file_cache' =
                     [path \in DOMAIN r.keys \cup DOMAIN r.fc |->
                        IF path \in DOMAIN r.keys
                          THEN [mtime |-> now, content |-> out(path)]
                        ELSE r.fc[path]]
                /\ last_reload_time' = now
         ELSE /\ disk' = disk
              /\ file_cache' = r.fc
              /\ last_reload_time' = r.lrt
      /\ lhist' = [lhist EXCEPT
           !.last = IF r.raised THEN "raised"
                    ELSE IF wrote THEN "sync" ELSE "none",
           !.reloaded = r.reloaded]
      /\ UNCHANGED legacyrest

\* somebody else changes a file on disk; what the last call left is no
\* longer compared with the files
disk_change(f, entry) ==
  /\ next < MaxExt
  /\ next' = next + 1
  /\ disk[f] # entry
  /\ disk' = [disk EXCEPT ![f] = entry]
  /\ lhist' = [lhist EXCEPT !.last = "none", !.reloaded = FALSE]
  /\ UNCHANGED <<lockvars, cachevars, rcvars, mgrvars, heap, file, now,
                 thrvars, histvars, merge_configs, merged, fragments,
                 dir_result, watch, cfg, config_path_keys, file_cache,
                 last_reload_time>>

disk_write(f, tree) == disk_change(f, OnDisk(tree, now))
disk_delete(f) == disk[f].exists /\ disk_change(f, Absent)

NextLegacy ==
  \/ \E path \in {None, CustomBase} : load_config(path)
  \/ get_config
  \/ sync_config
  \/ Tick
  \/ \E f \in FileSet, tree \in LegacyTrees : disk_write(f, tree)
  \/ \E f \in FileSet : disk_delete(f)

SpecLegacy == InitLegacy /\ [][NextLegacy]_vars

\* C1: while a thread is between a returned acquire_write and its
\* release_write, no other thread is between a returned acquire_write and
\* its release_write, nor between a returned acquire_read and its
\* release_read.
C1_WriterExcludesAll ==
  \A t \in DOMAIN lk :
    HoldsWrite(t) =>
      \A u \in DOMAIN lk \ {t} : ~HoldsWrite(u) /\ ~HoldsRead(u)

\* a writer holds the lock after it had to wait for a reader, while another
\* writer that was woken with it is kept out
C1_Witness ==
  \E t, u \in DOMAIN lk : t # u /\ HoldsWrite(t) /\ lk[u] = "woken"

(***************************************************************************)
(* Properties of the ConfigManager, checked under Spec.                    *)
(***************************************************************************)
Got(t) == pc[t] = "idle" /\ ret[t].name = "get"

\* C2: the tree a get() handed out shows a set() either fully applied or not
\* applied at all, also while the caller goes on reading it: with before the
\* tree when set(query, value) began, the caller sees the subtree of before
\* or of before with the whole set applied.
C2_NoPartialSet ==
  \A t, s \in Threads :
    (/\ Got(t) /\ ret[t].kind = "ref"
     /\ op[s].name = "set" /\ loc[s].obj = ret[t].obj)
    => SubAt(heap[ret[t].obj], ret[t].query)
         \in {SubAt(obs[s].before, ret[t].query),
              SubAt(SetFrom(obs[s].before, op[s].query, op[s].value, 0),
                    ret[t].query)}

\* C3: the tree sync() wrote to the file holds only key paths that the
\* file's own parsed content held when it was loaded.
C3_SyncWritesOnlyFileKeys ==
  hist.file_writer = "sync" => DOMAIN file.content \subseteq hist.file_keys

\* C4: while no load has succeeded, a get() returns its default and does
\* not raise.
C4_GetBeforeLoadReturnsDefault ==
  \A t \in Threads :
    (Got(t) /\ mgr_config_path = None) => ret[t].kind = "default"

\* C5: a get() that begins after a successful load and whose transparent
\* reload fails to read the file does not raise the read error.
C5_GetSwallowsReloadError ==
  \A t \in Threads :
    (Got(t) /\ obs[t].loaded)
    => ~(/\ ret[t].kind = "raised"
         /\ ret[t].val \in {"FileNotFoundError", "YAMLError"})

\* C6: a get() that begins after a load, when the file was rewritten (its
\* mtime differs from the baseline) and at least reload_interval_seconds
\* have passed since the cache timestamp, and that runs with no other call
\* and no further external change, returns the rewritten file's value for
\* every key the file holds.
C6_HotReload ==
  \A t \in Threads :
    (/\ Got(t)
     /\ ret[t].query \in DOMAIN obs[t].hot
     /\ obs[t].hot[ret[t].query] # EmptyDict)
    => /\ ret[t].kind = "scalar"
       /\ ret[t].val = obs[t].hot[ret[t].query]

\* get("a") returned 2 after the file that was loaded with a: 1 was
\* rewritten to a: 2
C6_Witness ==
  \E t \in Threads :
    /\ Got(t) /\ obs[t].hot = FileV2
    /\ ret[t].query = <<"a">> /\ ret[t].val = "2"

\* C7: once sync() has written the file, and until someone else writes it,
\* the baseline of the reload controller is the mtime of the file.
C7_SyncRefreshesBaseline ==
  hist.file_writer = "sync" => rc_last_mtime = file.mtime

C9_NeverStaleBeyondInterval ==
  \A t \in Threads : (Got(t) /\ obs[t].alone) => ~obs[t].stale

\* C10: the get() calls that begin after a load and less than
\* reload_interval_seconds after it make at most one has_file_changed call
\* in total.
C10_OneCheckPerWindow == hist.checks <= 1

\* every thread has completed a get() that began inside the window of
\* the same load
C10_Witness ==
  \A t \in Threads : Got(t) /\ obs[t].inwin

\* a step of thread t inside a sync() or reload() that found nothing loaded
NotLoadedStep(t) ==
  /\ pc'[t] # pc[t]
  /\ {pc[t], pc'[t]} \cap {"sync_raise", "reload_raise"} # {}

\* C11: while no load has succeeded, a sync() or reload() ends by raising
\* the not-loaded error (RuntimeError), also after a set(); and no step of
\* such a call changes the cache, the cached tree, the baseline of the
\* reload controller, the recorded path and defaults, or the file.
C11_NotLoadedFails ==
  /\ [](\A t \in Threads :
         (/\ pc[t] = "idle" /\ ret[t].name \in {"sync", "reload"}
          /\ mgr_config_path = None)
         => ret[t] = Raised(ret[t].name, "RuntimeError"))
  /\ [][\A t \in Threads :
         NotLoadedStep(t)
         => /\ UNCHANGED <<cachevars, rcvars, mgrvars, file>>
            /\ cache_cache # NoObj => heap'[cache_cache] = heap[cache_cache]]_vars

\* sync() and reload() have both raised on a manager that was never loaded
\* and whose cache holds what a set() put there
C11_Witness ==
  \E t, u \in Threads :
    /\ pc[t] = "idle" /\ ret[t] = Raised("sync", "RuntimeError")
    /\ pc[u] = "idle" /\ ret[u] = Raised("reload", "RuntimeError")
    /\ mgr_config_path = None
    /\ cache_cache # NoObj /\ heap[cache_cache] # EmptyTree

\* only thread t has called the manager so far
Solo(t) == \A u \in Threads \ {t} : pc[u] = "idle" /\ ret[u] = NoRet

\* C12: a reload() that returns, on a manager only its caller uses, has
\* replaced the cache with merge(defaults, content) for the defaults of the
\* most recent successful load() and the file's content, read anew; it
\* does so whatever the cache timestamp and the baseline are.  (Stated
\* while the file is as the reload read it.)
C12_ReloadReadsAgain ==
  \A t \in Threads :
    (/\ pc[t] = "idle" /\ ret[t].name = "reload" /\ ret[t].kind = "ref"
     /\ Solo(t) /\ hist.reloaded)
    => /\ cache_cache = ret[t].obj
       /\ heap[cache_cache] = merge(<<hist.defaults, file.content>>)
       /\ mgr_config_path = F /\ mgr_default_config = hist.defaults

\* a reload() has returned the merge with the defaults given to load(),
\* though no time has passed since the load (the window has not elapsed)
\* and the file was never modified (the detector reports no change)
C12_Witness ==
  \E t \in Threads :
    /\ pc[t] = "idle" /\ ret[t].name = "reload" /\ ret[t].kind = "ref"
    /\ Solo(t) /\ hist.reloaded
    /\ hist.defaults = Defaults
    /\ now = StartTime /\ next = 0 /\ rc_last_mtime = file.mtime

KeyPaths(tr) ==
  {kp \in UNION {{SubSeq(q, 1, n) : n \in 1 .. Len(q)} : q \in DOMAIN tr} :
     \A i \in 1 .. Len(kp) : kp[i] \notin Indices}

\* the value of tr at key path kp is a scalar or a list
HoldsValue(tr, kp) ==
  \/ kp \in DOMAIN tr /\ tr[kp] # EmptyDict
  \/ \E q \in DOMAIN tr :
       IsPrefix(kp, q) /\ Len(q) > Len(kp) /\ q[Len(kp) + 1] \in Indices

\* the value of tr at key path kp
ValueAt(tr, kp) == [q \in {r \in DOMAIN tr : IsPrefix(kp, r)} |-> tr[q]]

\* C14: after load with defaults D the cached tree has, at every key path
\* where the file holds a scalar or a list, the file's value, whether or
\* not D holds the key path too; and at every key path where D holds a
\* scalar or a list and that neither lies under nor above a key path where
\* the file holds a value, D's value.
C14_FileWinsOverDefaults ==
  merged.fn = "final_config" =>
    LET D == merge_configs[1]
        Fl == merge_configs[2]
    IN  /\ \A kp \in KeyPaths(Fl) :
             HoldsValue(Fl, kp) => ValueAt(merged.val, kp) = ValueAt(Fl, kp)
        /\ \A kp \in KeyPaths(D) :
             (/\ HoldsValue(D, kp)
              /\ \A fp \in KeyPaths(Fl) :
                   (HoldsValue(Fl, fp) \/ fp \in DOMAIN Fl)
                   => ~IsPrefix(kp, fp) /\ ~IsPrefix(fp, kp))
             => ValueAt(merged.val, kp) = ValueAt(D, kp)

\* the merge the contract describes, one step: mappings are merged
\* recursively, a scalar or a list of the later tree replaces what the
\* earlier tree holds at that key
RECURSIVE DeepMergeStep(_, _)
DeepMergeStep(obj, source) ==
  LET ks == Keys(source)
      part(k) ==
        IF IsMapping(source, k) /\ IsMapping(obj, k)
          THEN Under(k, DeepMergeStep(Sub(obj, k), Sub(source, k)))
        ELSE Entry(source, k)
      kept == {p \in DOMAIN obj : p[1] \notin ks}
  IN  [p \in kept \cup UNION {DOMAIN part(k) : k \in ks}
         |-> IF p \in kept THEN obj[p] ELSE part(p[1])[p]]

RECURSIVE OrderedDeepMerge(_)
OrderedDeepMerge(trees) ==
  IF Len(trees) = 0 THEN EmptyTree
  ELSE DeepMergeStep(OrderedDeepMerge(SubSeq(trees, 1, Len(trees) - 1)),
                     trees[Len(trees)])

\* C15: ConfigMerger.merge(t1, ..., tn) is the ordered deep merge in which
\* two mappings at a key are merged recursively and, where either value is
\* a scalar or a list, the later value replaces the earlier entirely.
C15_ListsReplaced ==
  merged.fn = "merge" => merged.val = OrderedDeepMerge(merge_configs)

PriorityOf(f) ==
  LET v == f.content[<<"priority">>]
  IN  IF v = "1" THEN 1 ELSE IF v = "2" THEN 2 ELSE 3
HasPriority(f) == f.ok /\ <<"priority">> \in DOMAIN f.content

\* C17: when every fragment of the directory is readable and carries a
\* priority, all different, the tree read has the db.host of the fragment
\* with the highest priority, whatever the file names are.
C17_PriorityOrder ==
  (/\ dir_result.fn # "none" /\ Len(fragments) > 0
   /\ \A i \in 1 .. Len(fragments) : HasPriority(fragments[i])
   /\ \A i, j \in 1 .. Len(fragments) :
        i # j => PriorityOf(fragments[i]) # PriorityOf(fragments[j]))
  => LET top == CHOOSE i \in 1 .. Len(fragments) :
                  \A j \in 1 .. Len(fragments) :
                    PriorityOf(fragments[j]) <= PriorityOf(fragments[i])
     IN  /\ dir_result.fn = "returned"
         /\ dir_result.val[<<"db", "host">>]
              = fragments[top].content[<<"db", "host">>]

IsReadable(f) == f.ok
ContentsOf(frs) == [i \in 1 .. Len(frs) |-> frs[i].content]

\* C18: with a readable fragment in the directory the read returns the
\* merge of the readable fragments, the others being skipped; when the
\* directory has fragments and none is readable the read fails.
C18_SkipOrFail ==
  (dir_result.fn # "none" /\ Len(fragments) > 0)
  => IF \E i \in 1 .. Len(fragments) : fragments[i].ok
       THEN /\ dir_result.fn = "returned"
            /\ dir_result.val
                 = merge(ContentsOf(SelectSeq(fragments, IsReadable)))
     ELSE dir_result.fn = "raised"

\* C19: a thread that calls acquire_read while no thread is between a
\* returned acquire_write and its release_write gets the read lock at once,
\* however many threads hold the read lock or wait inside acquire_write.
C19_ReadersNeverWaitForReaders ==
  \A t \in DOMAIN lk :
    (lk[t] = "idle" /\ \A u \in DOMAIN lk : ~HoldsWrite(u))
    => ENABLED client_acquire_read(t)

\* two threads hold the read lock while a third waits inside acquire_write
\* and a fourth is about to call acquire_read
C19_Witness ==
  \E t, u, w, r \in DOMAIN lk :
    /\ t # u /\ HoldsRead(t) /\ HoldsRead(u)
    /\ lk[w] = "wait" /\ lk[r] = "idle"

\* a step thread t takes inside a set() call
IsSetStep(t) ==
  /\ op[t].name = "set" \/ op'[t].name = "set"
  /\ pc'[t] # pc[t] \/ loc'[t] # loc[t]

\* C20: no step of a set() call changes the backing file, the baseline or
\* the tracked path of the reload controller, or the recorded path and
\* defaults; and the manager changes the file only in the write of sync(),
\* every other change of the file being an external modification.
C20_SetInMemoryOnly ==
  [][/\ \A t \in Threads :
          IsSetStep(t) => UNCHANGED <<file, rcvars, mgrvars>>
     /\ file' # file
          => \/ \E t \in Threads : op[t].name = "sync" /\ pc[t] = "sync_write"
             \/ next' # next]_vars

\* a set() has returned on a loaded manager: the cached tree differs from
\* what was loaded, the file and the baseline are as the load left them
C20_Witness ==
  \E t \in Threads :
    /\ pc[t] = "idle" /\ ret[t] = Returned("set")
    /\ mgr_config_path = F /\ next = 0 /\ hist.file_writer = "ext"
    /\ file.content = FileV1 /\ rc_last_mtime = file.mtime
    /\ heap[cache_cache] # merge(<<mgr_default_config, file.content>>)

(***************************************************************************)
(* Properties of the change detection, checked under Spec.                 *)
(***************************************************************************)
\* thread t makes the has_file_changed call of _reload_if_needed
ChecksFile(t) == pc[t] = "get_check" /\ pc'[t] # "get_check"

\* C21: a has_file_changed call leaves the baseline (_last_mtime) as it
\* is, whatever it returns, so that a change it reported stays reported
\* until a load re-establishes the baseline.
C21_CheckKeepsBaseline ==
  [][\A t \in Threads : ChecksFile(t) => rc_last_mtime' = rc_last_mtime]_vars

\* C22: whenever the baseline of the tracked file equals the mtime the
\* file has now, a load has read the file's current version (the one its
\* last external writer left): no version is taken for observed that was
\* never read, also when it is written between the read of the source and
\* the refresh of the baseline.
C22_NoLostChange ==
  (/\ rc_config_path # None /\ file.exists /\ hist.file_writer = "ext"
   /\ rc_last_mtime = file.mtime)
  => hist.reloaded

\* thread t takes a step of the call it is in (or begins one)
StepOf(t) == pc'[t] # pc[t] \/ loc'[t] # loc[t]

\* the step thread t takes reads the cache entry (ConfigCache.get,
\* should_reload) or the baseline (has_file_changed)
ReadsShared(t) ==
  /\ StepOf(t)
  /\ \/ pc[t] = "idle" /\ op'[t].name = "get"
     \/ pc[t] \in {"get_check", "get_read", "set_path", "sync_write"}

\* C23: every step that changes the baseline of the reload controller is
\* taken by a thread holding the write lock, and every step that reads the
\* cache entry (tree or timestamp) or the baseline by a thread holding the
\* read lock or the write lock.
C23_GuardedByLock ==
  [][\A t \in Threads :
       /\ (StepOf(t) /\ rc_last_mtime' # rc_last_mtime) => lk[t] = "write"
       /\ ReadsShared(t) => lk[t] \in {"read", "write"}]_vars

(***************************************************************************)
(* Properties of the directory-backed manager, checked under SpecWatch.    *)
(***************************************************************************)
\* C24: a get() on a loaded directory that begins when the reload interval
\* has elapsed returns the configuration of the files as they are then,
\* also when all that happened since the load is that one fragment was
\* rewritten in place.
C24_FragmentChangeDetected ==
  (watch.got.fn = "get" /\ watch.due)
  => watch.got.val
       = final_config(mgr_default_config, read_directory(fragments))

\* C29: two has_file_changed calls of get() on a tracked path are never
\* less than reload_interval_seconds apart, also when the earlier one came
\* after the interval had elapsed and found nothing changed.
C29_OneCheckPerInterval ==
  watch.prev_check # NoTime
  => watch.last_check - watch.prev_check >= reload_interval_seconds

(***************************************************************************)
(* Properties of the module-level loader, checked under SpecLegacy.        *)
(***************************************************************************)
\* the key paths at which tree tr holds a value that is no mapping
LeafKeyPaths(tr) == {kp \in KeyPaths(tr) : HoldsValue(tr, kp)}

\* the last call loaded the files: a load_config, or a get_config that
\* reloaded
JustLoaded ==
  lhist.last = "load" \/ (lhist.last = "get" /\ lhist.reloaded)

\* C25: after a load or reload every entry of _config_path_keys lists
\* exactly the leaf key paths of its file's own content; and the tree
\* sync_config writes to a file holds leaf key paths recorded for that
\* file only, each with the value the merged configuration holds there.
C25_SyncWritesOwnKeys ==
  /\ JustLoaded
     => \A f \in DOMAIN config_path_keys :
          config_path_keys[f] = LeafKeyPaths(disk[f].content)
  /\ lhist.last = "sync"
     => \A f \in DOMAIN config_path_keys :
          /\ LeafKeyPaths(disk[f].content) \subseteq config_path_keys[f]
          /\ \A kp \in LeafKeyPaths(disk[f].content) :
               ValueAt(disk[f].content, kp) = ValueAt(cfg.val, kp)

\* a get_config or sync_config reloads in this step
AutoReload ==
  /\ lhist'.reloaded
  /\ lhist'.last \in {"get", "sync"}
  /\ lhist.base # None

\* C30: the reload inside get_config and sync_config rebuilds the merged
\* configuration from the files under the path given to the most recent
\* load_config that succeeded: it leaves what a load of that path would
\* leave.
C30_ReloadSamePath ==
  [][AutoReload => cfg' = load_config_unlocked(lhist.base).cfg]_vars

\* C28: while a thread is inside the write of sync() (it holds the read
\* lock, between lines 206 and 220), no other thread is inside the write
\* of a sync() nor inside the read of a load() or reload().
C28_SyncWriteExclusive ==
  \A t, u \in Threads :
    (t # u /\ pc[t] = "sync_write")
    => pc[u] \notin {"sync_write", "load_read"}

\* a step of thread t in a load() or reload(), also the one get() calls,
\* up to and including the point where the call may raise: the call
\* itself, the check of the format, the wait for the write lock, the read
\* of the source
LoadStepUncommitted(t) ==
  \/ pc[t] = "idle" /\ pc'[t] \in {"load_aw", "reload_raise"}
  \/ /\ pc[t] = "idle" /\ pc'[t] = "idle" /\ nops' # nops
     /\ ret'[t] = Raised("load", "ValueError")
  \/ /\ pc[t] \in {"get_reload", "load_aw", "load_read", "reload_raise"}
     /\ pc'[t] # pc[t] \/ lk'[t] # lk[t]

\* C27: a load() or reload() that raises (unsupported format, missing
\* file, parse error, nothing loaded) has changed nothing: none of its
\* steps up to the raise changes the cache entry, the cached tree, the
\* tracked path and baseline, or the recorded path and defaults; and once
\* it has raised its caller holds no lock.
C27_FailedLoadChangesNothing ==
  /\ [](\A t \in Threads :
         (pc[t] = "idle" /\ ret[t].kind = "raised")
         => lk[t] = "idle" /\ lock_mutex # t)
  /\ [][\A t \in Threads :
         LoadStepUncommitted(t)
         => /\ UNCHANGED <<cachevars, rcvars, mgrvars>>
            /\ cache_cache # NoObj
                 => heap'[cache_cache] = heap[cache_cache]]_vars

\* a reload() has raised on the file an external writer broke or deleted:
\* the cache holds what the load put there, the baseline is the mtime the
\* load recorded, no lock is held, and a get() on the other thread has
\* returned the loaded value
C27_Witness ==
  \E t, u \in Threads :
    /\ pc[t] = "idle" /\ ret[t].name = "reload" /\ ret[t].kind = "raised"
    /\ ret[t].val \in {"FileNotFoundError", "YAMLError"}
    /\ ~file.ok
    /\ lk[t] = "idle" /\ lock_mutex = 0
    /\ cache_cache # NoObj
    /\ heap[cache_cache] = merge(<<mgr_default_config, FileV1>>)
    /\ rc_config_path = F /\ rc_last_mtime = 0 /\ mgr_config_path = F
    /\ u # t /\ Got(u) /\ ret[u] = Lookup("get", cache_cache, FileV1, <<"a">>)

(***************************************************************************)
(* Termination of the calls, checked under SpecLive.                       *)
(***************************************************************************)
\* thread t is inside acquire_read or acquire_write, or about to call it
RequestsLock(t) == pc[t] \in {"load_aw", "set_aw", "get_ar", "sync_ar"}

\* C26: a thread that requests the lock does not hold it; while a call is
\* under way some thread inside a call can take a step; and every call
\* that has begun returns or raises.
C26_NoDeadlock ==
  /\ [](\A t \in Threads : RequestsLock(t) => lk[t] \notin {"read", "write"})
  /\ []((\E t \in Threads : Running(t))
          => \E t \in Threads : ENABLED Proceed(t))
  /\ \A t \in Threads : Running(t) ~> ~Running(t)

\* a get() found the file gone after the interval and went to reload it
\* while a sync() held the read lock: it waited inside acquire_write and
\* has been woken by the release_read of the sync
C26_Witness ==
  \E t \in Threads :
    /\ op[t].name = "get" /\ pc[t] = "load_aw" /\ lk[t] = "woken"
    /\ nops = MaxOps /\ hist.file_writer = "sync"

====
